---- MODULE Spec2Model ----
(***************************************************************************)
(* The C tracer of coverage.py (coverage/tracer.c): the per-context data   *)
(* stacks, the context registry, the event handlers (call, line, return,   *)
(* exception), missing-return recovery and plugin disablement.             *)
(*                                                                         *)
(* tracer.c carries an unresolved merge at lines 617-626.  The two sides   *)
(* touch different fields (cur_entry.disposition on one side, the          *)
(* generator-aware cur_entry.last_line on the other); the model keeps the  *)
(* assignment of disposition and the generator-aware last_line, which is   *)
(* the only reading under which CTracer_handle_line's use of               *)
(* cur_entry.disposition (line 764) reads an initialised field.            *)
(***************************************************************************)
EXTENDS Integers, Sequences, FiniteSets, TLC

VARIABLES
    self,       \* the CTracer struct, with the dicts its members refer to
    objs,       \* attributes of external Python objects and callback logs
    ev,         \* the event (or control call) processed last, with its result
    script,     \* scripted runs: the event sequence of each context
    pc,         \* scripted runs: per context, the number of events delivered
    nest        \* recursion runs: [n, level, phase]

vars == <<self, objs, ev, script, pc, nest>>

----------------------------------------------------------------------------
(* Values *)

RET_OK == 0
RET_ERROR == -1
STACK_DELTA == 100
STACKS_DELTA == 10

NULL == "NULL"
Py_None == "None"

\* self->pdata_stack = &self->data_stack
PDefault == -1

NullObj == [kind |-> "null", id |-> NULL]
DispObj(f) == [kind |-> "disp", id |-> f]
BoolObj(b) == [kind |-> "bool", id |-> IF b THEN "True" ELSE "False"]
Py_True == BoolObj(TRUE)

\* A DataStackEntry
Entry(fd, disp, ft, ll) ==
    [file_data |-> fd, disposition |-> disp, file_tracer |-> ft, last_line |-> ll]

----------------------------------------------------------------------------
(* The host's frames and the configured callbacks (inputs of the engine) *)

\* PyFrameObject: f_code->co_filename, f_code->co_firstlineno, f_back.
FrameTable ==
    <<  [co_filename |-> "A", co_firstlineno |-> 1, f_back |-> 0],
        [co_filename |-> "B", co_firstlineno |-> 2, f_back |-> 1],
        [co_filename |-> "U", co_firstlineno |-> 1, f_back |-> 1],
        [co_filename |-> "P", co_firstlineno |-> 1, f_back |-> 1],
        [co_filename |-> "Q", co_firstlineno |-> 2, f_back |-> 1] >>

Frames == DOMAIN FrameTable
NoFrame == 0

\* Native file names, and the names dynamic_source_filename may produce.
Files == {"A", "B", "U", "P", "Q"}
DynNames == {"A", "D"}
Names == Files \cup DynNames

Tracers == {"T_P", "T_Q"}
Plugins == {"plug_P", "plug_Q"}
\* file_tracer._coverage_plugin
PluginOf(ft) == IF ft = "T_P" THEN "plug_P" ELSE "plug_Q"

\* The attributes of the disposition should_trace(filename, frame) returns.
should_trace(filename) ==
    CASE filename = "A" -> [trace |-> TRUE, source_filename |-> "A",
                            file_tracer |-> Py_None, has_dynamic_filename |-> FALSE]
      [] filename = "B" -> [trace |-> TRUE, source_filename |-> "B",
                            file_tracer |-> Py_None, has_dynamic_filename |-> FALSE]
      [] filename = "P" -> [trace |-> TRUE, source_filename |-> "P",
                            file_tracer |-> "T_P", has_dynamic_filename |-> FALSE]
      [] filename = "Q" -> [trace |-> TRUE, source_filename |-> "Q",
                            file_tracer |-> "T_Q", has_dynamic_filename |-> TRUE]
      [] OTHER          -> [trace |-> FALSE, source_filename |-> filename,
                            file_tracer |-> Py_None, has_dynamic_filename |-> FALSE]

\* One event as the host delivers it, with the outcome of every external call
\* the handlers may make while processing it.
Event(what, frame, lineno, fresh, yield, co, st, ci, dyn, lnr, grow_fails, stacks_fail) ==
    [what |-> what,             \* "call" | "line" | "return" | "exception"
     frame |-> frame,
     f_lineno |-> lineno,
     f_lasti_neg |-> fresh,     \* frame->f_lasti < 0
     yield |-> yield,           \* co_code[f_lasti] = YIELD_VALUE
     co |-> co,                 \* what concur_id_func() returns, or CoRaises
     st |-> st,                 \* should_trace: "ok" | "raise"
     ci |-> ci,                 \* check_include: "True" | "False" | "raise"
     dyn |-> dyn,               \* dynamic_source_filename: name | "None" | "raise"
     lnr |-> lnr,               \* line_number_range
     grow_fails |-> grow_fails, \* PyMem_Realloc of a data stack returns NULL
     stacks_fail |-> stacks_fail] \* PyMem_Realloc of data_stacks returns NULL

\* concur_id_func() raises
CoRaises == "raise"

Range(from, to) == [kind |-> "ok", from |-> from, to |-> to]
RangeRaises == [kind |-> "raise", from |-> 0, to |-> 0]
RangeMalformed == [kind |-> "malformed", from |-> 0, to |-> 0]

----------------------------------------------------------------------------
(* The engine.  Handlers are operators on the record s: the members of     *)
(* self, the external objects of objs, and ret, the handler's status.      *)

Fail(s) == [s EXCEPT !.ret = RET_ERROR]

DataStack_init == [depth |-> -1, alloc |-> 0, stack |-> <<>>]

\* DataStack_grow with the depth-- of the failure path run after every realloc
DataStack_grow_DepthLost(ds, realloc_fails) ==
    LET d == ds.depth + 1 IN
    IF d >= ds.alloc
    THEN IF realloc_fails
         THEN [ret |-> RET_ERROR, ds |-> [ds EXCEPT !.depth = d - 1]]
         ELSE [ret |-> RET_OK,
               ds |-> [ds EXCEPT !.depth = d - 1, !.alloc = @ + STACK_DELTA]]
    ELSE [ret |-> RET_OK, ds |-> [ds EXCEPT !.depth = d]]

\* DataStack_grow allocating a fresh block without copying the old entries
DataStack_grow_NoCopy(ds, realloc_fails) ==
    LET d == ds.depth + 1 IN
    IF d >= ds.alloc
    THEN IF realloc_fails
         THEN [ret |-> RET_ERROR, ds |-> [ds EXCEPT !.depth = d - 1]]
         ELSE [ret |-> RET_OK,
               ds |-> [ds EXCEPT !.depth = d, !.alloc = @ + STACK_DELTA,
                                 !.stack = <<>>]]
    ELSE [ret |-> RET_OK, ds |-> [ds EXCEPT !.depth = d]]

\* DataStack_grow returning RET_ERROR without the depth-- of the failure path
DataStack_grow_NoUndo(ds, realloc_fails) ==
    LET d == ds.depth + 1 IN
    IF d >= ds.alloc
    THEN IF realloc_fails
         THEN [ret |-> RET_ERROR, ds |-> [ds EXCEPT !.depth = d]]
         ELSE [ret |-> RET_OK,
               ds |-> [ds EXCEPT !.depth = d, !.alloc = @ + STACK_DELTA]]
    ELSE [ret |-> RET_OK, ds |-> [ds EXCEPT !.depth = d]]

\* DataStack_grow growing the block only once depth is beyond alloc
DataStack_grow_Late(ds, realloc_fails) ==
    LET d == ds.depth + 1 IN
    IF d > ds.alloc
    THEN IF realloc_fails
         THEN [ret |-> RET_ERROR, ds |-> [ds EXCEPT !.depth = d - 1]]
         ELSE [ret |-> RET_OK,
               ds |-> [ds EXCEPT !.depth = d, !.alloc = @ + STACK_DELTA]]
    ELSE [ret |-> RET_OK, ds |-> [ds EXCEPT !.depth = d]]

\* ds: the DataStack; realloc_fails: the outcome of PyMem_Realloc.
\* stack maps the indices written so far to entries; realloc keeps them.
DataStack_grow(ds, realloc_fails) ==
    LET d == ds.depth + 1 IN
    IF d >= ds.alloc
    THEN IF realloc_fails
         THEN [ret |-> RET_ERROR, ds |-> [ds EXCEPT !.depth = d - 1]]
         ELSE [ret |-> RET_OK,
               ds |-> [ds EXCEPT !.depth = d, !.alloc = @ + STACK_DELTA]]
    ELSE [ret |-> RET_OK, ds |-> [ds EXCEPT !.depth = d]]

\* *self->pdata_stack
PStack(s) ==
    IF s.pdata_stack = PDefault THEN s.data_stack ELSE s.data_stacks[s.pdata_stack]

SetPStack(s, ds) ==
    IF s.pdata_stack = PDefault
    THEN [s EXCEPT !.data_stack = ds]
    ELSE [s EXCEPT !.data_stacks[s.pdata_stack] = ds]

\* The value read at stack[i]; a slot never written holds no defined entry.
StackRead(ds, i) ==
    IF i \in DOMAIN ds.stack THEN ds.stack[i] ELSE Entry("?", NullObj, "?", 0)

\* self->pdata_stack->stack[self->pdata_stack->depth] = self->cur_entry
PushCurEntry(s) ==
    LET ds == PStack(s) IN
    SetPStack(s, [ds EXCEPT !.stack = (ds.depth :> s.cur_entry) @@ @])

\* The pop without the copy of stack[depth] into cur_entry
PopCurEntry_NoRestore(s) ==
    LET ds == PStack(s) IN
    SetPStack(s, [ds EXCEPT !.depth = @ - 1])

\* self->cur_entry = stack[depth]; depth--
PopCurEntry(s) ==
    LET ds == PStack(s) IN
    SetPStack([s EXCEPT !.cur_entry = StackRead(ds, ds.depth)],
              [ds EXCEPT !.depth = @ - 1])

\* CTracer_record_pair building the tuple as (l2, l1)
CTracer_record_pair_Swapped(s, l1, l2) ==
    [s EXCEPT !.data[s.cur_entry.file_data] = @ \cup {<<l2, l1>>}]

CTracer_record_pair(s, l1, l2) ==
    [s EXCEPT !.data[s.cur_entry.file_data] = @ \cup {<<l1, l2>>}]

\* The line key built from cur_entry.last_line instead of lineno_from
RecordLine_LastLine(s, l) ==
    [s EXCEPT !.data[s.cur_entry.file_data] = @ \cup {s.cur_entry.last_line}]

\* Tracing lines: PyDict_SetItem(cur_entry.file_data, this_line, None)
RecordLine(s, l) ==
    [s EXCEPT !.data[s.cur_entry.file_data] = @ \cup {l}]

\* What an uninitialised DataStack slot of a fresh data_stacks array holds:
\* the image of an empty stack, or bytes the handlers cannot survive.
JunkEmpty == "empty"

JunkWild == "wild"

\* The process dies on a wild pointer: no callback runs afterwards.
Crash(s) == [s EXCEPT !.crashed = TRUE, !.ret = RET_ERROR]

CTracer_set_pdata_stack(s, e) ==
    IF s.concur_id_func # Py_None
    THEN IF e.co = CoRaises
         THEN Fail(s)    \* PyObject_CallObject(concur_id_func) returns NULL
         ELSE
         IF e.co \in DOMAIN s.data_stack_index
         THEN LET the_index == s.data_stack_index[e.co] IN
              IF the_index \in DOMAIN s.data_stacks
              THEN [s EXCEPT !.pdata_stack = the_index]
              ELSE \* the registered slot was never initialised: with no
                   \* array it is an address next to NULL; in an array
                   \* allocated since, it holds what the memory held
                   IF s.data_stacks_alloc = 0 \/ s.junk = JunkWild
                   THEN Crash(s)
                   ELSE [s EXCEPT
                           !.data_stacks = (the_index :> DataStack_init) @@ @,
                           !.pdata_stack = the_index]
         ELSE LET the_index == s.data_stacks_used
                  s1 == [s EXCEPT !.data_stack_index = (e.co :> the_index) @@ @,
                                  !.data_stacks_used = @ + 1]
              IN  IF s1.data_stacks_used >= s1.data_stacks_alloc
                  THEN IF e.stacks_fail
                       THEN Fail(s1)
                       ELSE [s1 EXCEPT
                               !.data_stacks_alloc = @ + STACKS_DELTA,
                               !.data_stacks = (the_index :> DataStack_init) @@ @,
                               !.pdata_stack = the_index]
                  ELSE [s1 EXCEPT
                          !.data_stacks = (the_index :> DataStack_init) @@ @,
                          !.pdata_stack = the_index]
    ELSE [s EXCEPT !.pdata_stack = PDefault]

\* check_missing_return without the comparison of frame and last_exc_back
CTracer_check_missing_return_AnyFrame(s, frame, e) ==
    IF s.last_exc_back # NoFrame
    THEN LET s1 == CTracer_set_pdata_stack(s, e) IN
         IF s1.ret = RET_ERROR THEN s1
         ELSE IF PStack(s1).depth >= 0
              THEN LET s2 == IF s1.tracing_arcs /\ s1.cur_entry.file_data # NULL
                             THEN CTracer_record_pair(s1, s1.cur_entry.last_line,
                                                      -s1.last_exc_firstlineno)
                             ELSE s1
                   IN  [PopCurEntry(s2) EXCEPT !.last_exc_back = NoFrame]
              ELSE [s1 EXCEPT !.last_exc_back = NoFrame]
    ELSE s

CTracer_check_missing_return(s, frame, e) ==
    IF s.last_exc_back # NoFrame
    THEN IF frame = s.last_exc_back
         THEN LET s1 == CTracer_set_pdata_stack(s, e) IN
              IF s1.ret = RET_ERROR THEN s1
              ELSE IF PStack(s1).depth >= 0
                   THEN LET s2 == IF s1.tracing_arcs /\ s1.cur_entry.file_data # NULL
                                  THEN CTracer_record_pair(s1, s1.cur_entry.last_line,
                                                           -s1.last_exc_firstlineno)
                                  ELSE s1
                        IN  [PopCurEntry(s2) EXCEPT !.last_exc_back = NoFrame]
                   ELSE [s1 EXCEPT !.last_exc_back = NoFrame]
         ELSE [s EXCEPT !.last_exc_back = NoFrame]
    ELSE s

CTracer_disable_plugin(s, disposition) ==
    LET file_tracer == should_trace(disposition.id).file_tracer
        plugin == PluginOf(file_tracer)
    IN  IF file_tracer = Py_None
        THEN s
        ELSE [s EXCEPT !.warnings = Append(@, plugin),
                       !.coverage_enabled[plugin] = FALSE,
                       !.disp_trace[disposition.id] = FALSE]

\* The lookup without the PyDict_SetItem into should_trace_cache
LookupDisposition_NoStore(s, filename, e) ==
    IF filename \in DOMAIN s.should_trace_cache
    THEN [s |-> s, ret |-> RET_OK, disposition |-> s.should_trace_cache[filename]]
    ELSE LET s1 == [s EXCEPT !.st_calls[filename] = @ + 1] IN
         IF e.st = "raise"
         THEN [s |-> s1, ret |-> RET_ERROR, disposition |-> NullObj]
         ELSE [s |-> s1, ret |-> RET_OK, disposition |-> DispObj(filename)]

\* handle_call, lines 478-499: the disposition of the frame's file.
\* Gives [s, ret, disposition].
LookupDisposition(s, filename, e) ==
    IF filename \in DOMAIN s.should_trace_cache
    THEN [s |-> s, ret |-> RET_OK, disposition |-> s.should_trace_cache[filename]]
    ELSE LET s1 == [s EXCEPT !.st_calls[filename] = @ + 1] IN
         IF e.st = "raise"
         THEN [s |-> s1, ret |-> RET_ERROR, disposition |-> NullObj]
         ELSE [s |-> [s1 EXCEPT !.should_trace_cache =
                                    (filename :> DispObj(filename)) @@ @],
               ret |-> RET_OK, disposition |-> DispObj(filename)]

\* handle_call, lines 547-569: the include decision of a dynamic file name.
\* Gives [s, ret, tracename].
CheckDynamicName(s, tracename, e) ==
    IF tracename = Py_None
    THEN [s |-> s, ret |-> RET_OK, tracename |-> Py_None]
    ELSE IF tracename \in DOMAIN s.should_trace_cache
         THEN [s |-> s, ret |-> RET_OK,
               tracename |-> IF s.should_trace_cache[tracename] = Py_True
                             THEN tracename ELSE Py_None]
         ELSE LET s1 == [s EXCEPT !.ci_calls[tracename] = @ + 1] IN
              IF e.ci = "raise"
              THEN [s |-> s1, ret |-> RET_ERROR, tracename |-> Py_None]
              ELSE [s |-> [s1 EXCEPT !.should_trace_cache =
                                (tracename :> BoolObj(e.ci = "True")) @@ @],
                    ret |-> RET_OK,
                    tracename |-> IF e.ci = "True" THEN tracename ELSE Py_None]

\* EnterFile storing a new dict for the name at every call
EnterFile_NewData(s, tracename, file_tracer) ==
    IF tracename # Py_None
    THEN LET s1 == [s EXCEPT
                      !.data = (tracename :> {}) @@ @,
                      !.plugin_data =
                          IF file_tracer # Py_None
                          THEN (tracename :> PluginOf(file_tracer)) @@ @
                          ELSE @]
         IN  [s1 EXCEPT !.cur_entry.file_data = tracename,
                        !.cur_entry.file_tracer = file_tracer]
    ELSE [s EXCEPT !.cur_entry.file_data = NULL,
                   !.cur_entry.file_tracer = Py_None]

\* EnterFile without the test file_tracer != Py_None
EnterFile_AnyTracer(s, tracename, file_tracer) ==
    IF tracename # Py_None
    THEN LET s1 == IF tracename \in DOMAIN s.data
                   THEN s
                   ELSE [s EXCEPT
                           !.data = (tracename :> {}) @@ @,
                           !.plugin_data = (tracename :> PluginOf(file_tracer)) @@ @]
         IN  [s1 EXCEPT !.cur_entry.file_data = tracename,
                        !.cur_entry.file_tracer = file_tracer]
    ELSE [s EXCEPT !.cur_entry.file_data = NULL,
                   !.cur_entry.file_tracer = Py_None]

\* handle_call, lines 577-615: fetch or create the file's data, set cur_entry.
EnterFile(s, tracename, file_tracer) ==
    IF tracename # Py_None
    THEN LET s1 == IF tracename \in DOMAIN s.data
                   THEN s
                   ELSE [s EXCEPT
                           !.data = (tracename :> {}) @@ @,
                           !.plugin_data =
                               IF file_tracer # Py_None
                               THEN (tracename :> PluginOf(file_tracer)) @@ @
                               ELSE @]
         IN  [s1 EXCEPT !.cur_entry.file_data = tracename,
                        !.cur_entry.file_tracer = file_tracer]
    ELSE [s EXCEPT !.cur_entry.file_data = NULL,
                   !.cur_entry.file_tracer = Py_None]

\* handle_call, lines 617-626.
EnterFrame(s, disposition, e) ==
    [s EXCEPT !.cur_entry.disposition = disposition,
              !.cur_entry.last_line = IF e.f_lasti_neg THEN -1 ELSE e.f_lineno]

\* TraceDecision reading the flag should_trace gave, not the attribute
\* disable_plugin has set since
TraceDecision_IgnoresDisable(s, disposition, e) ==
    IF disposition.kind # "disp"
    THEN Fail(s)
    ELSE
    LET disp == should_trace(disposition.id) IN
    IF disp.trace
    THEN IF disp.has_dynamic_filename
         THEN IF e.dyn = "raise"
              THEN CTracer_disable_plugin(s, disposition)
              ELSE LET c == CheckDynamicName(s, e.dyn, e) IN
                   IF c.ret = RET_ERROR
                   THEN Fail(c.s)
                   ELSE EnterFrame(EnterFile(c.s, c.tracename, disp.file_tracer),
                                   disposition, e)
         ELSE EnterFrame(EnterFile(s, disp.source_filename, disp.file_tracer),
                         disposition, e)
    ELSE EnterFrame(EnterFile(s, Py_None, Py_None), disposition, e)

\* handle_call, lines 501-626, once the disposition object is in hand.
TraceDecision(s, disposition, e) ==
    IF disposition.kind # "disp"
    THEN Fail(s)    \* PyObject_GetAttrString(disposition, "trace") fails
    ELSE
    LET disp == should_trace(disposition.id) IN
    IF s.disp_trace[disposition.id]
    THEN IF disp.has_dynamic_filename
         THEN IF e.dyn = "raise"
              THEN CTracer_disable_plugin(s, disposition)    \* goto ok
              ELSE LET c == CheckDynamicName(s, e.dyn, e) IN
                   IF c.ret = RET_ERROR
                   THEN Fail(c.s)
                   ELSE EnterFrame(EnterFile(c.s, c.tracename, disp.file_tracer),
                                   disposition, e)
         ELSE EnterFrame(EnterFile(s, disp.source_filename, disp.file_tracer),
                         disposition, e)
    ELSE EnterFrame(EnterFile(s, Py_None, Py_None), disposition, e)

CTracer_handle_call(s, frame, e) ==
    LET s1 == CTracer_set_pdata_stack(s, e) IN
    IF s1.ret = RET_ERROR THEN s1
    ELSE
    LET g == DataStack_grow(PStack(s1), e.grow_fails) IN
    IF g.ret = RET_ERROR THEN Fail(SetPStack(s1, g.ds))
    ELSE
    LET s2 == PushCurEntry(SetPStack(s1, g.ds))
        d == LookupDisposition(s2, FrameTable[frame].co_filename, e)
    IN  IF d.ret = RET_ERROR THEN Fail(d.s)
        ELSE TraceDecision(d.s, d.disposition, e)

\* handle_line, lines 772-796: the loop over lineno_from..lineno_to.
RECURSIVE RecordRange(_, _, _)
RecordRange(s, lineno_from, lineno_to) ==
    IF lineno_from <= lineno_to
    THEN LET s1 == IF s.tracing_arcs
                   THEN CTracer_record_pair(s, s.cur_entry.last_line, lineno_from)
                   ELSE RecordLine(s, lineno_from)
         IN  RecordRange([s1 EXCEPT !.cur_entry.last_line = lineno_from],
                         lineno_from + 1, lineno_to)
    ELSE s

\* handle_line without the test lineno_from != -1
CTracer_handle_line_NoSuppress(s, frame, e) ==
    IF PStack(s).depth >= 0 /\ s.cur_entry.file_data # NULL
    THEN IF s.cur_entry.file_tracer # Py_None
         THEN CASE e.lnr.kind = "raise" -> Fail(s)
                [] e.lnr.kind = "malformed" ->
                       CTracer_disable_plugin(s, s.cur_entry.disposition)
                [] OTHER -> RecordRange(s, e.lnr.from, e.lnr.to)
         ELSE RecordRange(s, e.f_lineno, e.f_lineno)
    ELSE s

\* handle_line recording the frame's own line whatever the file tracer says
CTracer_handle_line_FrameLine(s, frame, e) ==
    IF PStack(s).depth >= 0 /\ s.cur_entry.file_data # NULL
    THEN IF e.f_lineno # -1
         THEN RecordRange(s, e.f_lineno, e.f_lineno)
         ELSE s
    ELSE s

\* handle_line testing file_data for the recording only: the line of an
\* untraced entry is still remembered as its last_line
CTracer_handle_line_Untraced(s, frame, e) ==
    IF PStack(s).depth >= 0
    THEN IF s.cur_entry.file_data = NULL
         THEN [s EXCEPT !.cur_entry.last_line = e.f_lineno]
         ELSE IF s.cur_entry.file_tracer # Py_None
         THEN CASE e.lnr.kind = "raise" -> Fail(s)
                [] e.lnr.kind = "malformed" ->
                       CTracer_disable_plugin(s, s.cur_entry.disposition)
                [] OTHER ->
                       IF e.lnr.from # -1
                       THEN RecordRange(s, e.lnr.from, e.lnr.to)
                       ELSE s
         ELSE IF e.f_lineno # -1
              THEN RecordRange(s, e.f_lineno, e.f_lineno)
              ELSE s
    ELSE s

CTracer_handle_line(s, frame, e) ==
    IF PStack(s).depth >= 0 /\ s.cur_entry.file_data # NULL
    THEN IF s.cur_entry.file_tracer # Py_None
         THEN CASE e.lnr.kind = "raise" -> Fail(s)
                [] e.lnr.kind = "malformed" ->
                       CTracer_disable_plugin(s, s.cur_entry.disposition)
                [] OTHER ->
                       IF e.lnr.from # -1
                       THEN RecordRange(s, e.lnr.from, e.lnr.to)
                       ELSE s
         ELSE IF e.f_lineno # -1
              THEN RecordRange(s, e.f_lineno, e.f_lineno)
              ELSE s
    ELSE s

\* handle_return without the test for YIELD_VALUE
CTracer_handle_return_YieldArc(s, frame, e) ==
    LET s1 == CTracer_set_pdata_stack(s, e) IN
    IF s1.ret = RET_ERROR THEN s1
    ELSE IF PStack(s1).depth >= 0
         THEN LET s2 == IF s1.tracing_arcs /\ s1.cur_entry.file_data # NULL
                        THEN CTracer_record_pair(s1, s1.cur_entry.last_line,
                                                 -FrameTable[frame].co_firstlineno)
                        ELSE s1
              IN  PopCurEntry(s2)
         ELSE s1

\* handle_return without the depth >= 0 test
CTracer_handle_return_Unguarded(s, frame, e) ==
    LET s1 == CTracer_set_pdata_stack(s, e) IN
    IF s1.ret = RET_ERROR THEN s1
    ELSE LET s2 == IF s1.tracing_arcs /\ s1.cur_entry.file_data # NULL
                      /\ ~e.yield
                   THEN CTracer_record_pair(s1, s1.cur_entry.last_line,
                                            -FrameTable[frame].co_firstlineno)
                   ELSE s1
         IN  PopCurEntry(s2)

CTracer_handle_return(s, frame, e) ==
    LET s1 == CTracer_set_pdata_stack(s, e) IN
    IF s1.ret = RET_ERROR THEN s1
    ELSE IF PStack(s1).depth >= 0
         THEN LET s2 == IF s1.tracing_arcs /\ s1.cur_entry.file_data # NULL
                           /\ ~e.yield
                        THEN CTracer_record_pair(s1, s1.cur_entry.last_line,
                                                 -FrameTable[frame].co_firstlineno)
                        ELSE s1
              IN  PopCurEntry(s2)
         ELSE s1

\* handle_exception that also pops the stack, as a return does
CTracer_handle_exception_Pops(s, frame, e) ==
    PopCurEntry([s EXCEPT !.last_exc_back = FrameTable[frame].f_back,
                          !.last_exc_firstlineno = FrameTable[frame].co_firstlineno])

\* handle_exception remembering the frame itself instead of frame->f_back
CTracer_handle_exception_OwnFrame(s, frame, e) ==
    [s EXCEPT !.last_exc_back = frame,
              !.last_exc_firstlineno = FrameTable[frame].co_firstlineno]

CTracer_handle_exception(s, frame, e) ==
    [s EXCEPT !.last_exc_back = FrameTable[frame].f_back,
              !.last_exc_firstlineno = FrameTable[frame].co_firstlineno]

CTracer_trace(s, frame, e) ==
    LET s1 == CTracer_check_missing_return([s EXCEPT !.ret = RET_OK], frame, e) IN
    IF s1.ret = RET_ERROR THEN s1
    ELSE CASE e.what = "call" -> CTracer_handle_call(s1, frame, e)
           [] e.what = "return" -> CTracer_handle_return(s1, frame, e)
           [] e.what = "line" -> CTracer_handle_line(s1, frame, e)
           [] e.what = "exception" -> CTracer_handle_exception(s1, frame, e)
           [] OTHER -> s1

\* start() without the reset of cur_entry.last_line
CTracer_start_KeepLine(s) ==
    [s EXCEPT !.started = TRUE,
              !.tracing_arcs = s.arcs]

\* start(): PyEval_SetTrace attaches CTracer_trace.
CTracer_start(s) ==
    [s EXCEPT !.started = TRUE,
              !.tracing_arcs = s.arcs,
              !.cur_entry.last_line = -1]

CTracer_stop(s) ==
    IF s.started THEN [s EXCEPT !.started = FALSE] ELSE s

\* The object after tp_alloc (zeroed) and CTracer_init, with the members the
\* Collector sets before start(): empty dicts, arcs and concur_id_func.
CTracer_init(arcs, concur_id_func) ==
    [should_trace_cache |-> <<>>,
     data |-> <<>>,
     plugin_data |-> <<>>,
     arcs |-> arcs,
     concur_id_func |-> concur_id_func,
     started |-> FALSE,
     tracing_arcs |-> FALSE,
     data_stack |-> DataStack_init,
     data_stack_index |-> <<>>,
     data_stacks |-> <<>>,
     data_stacks_alloc |-> 0,
     data_stacks_used |-> 0,
     pdata_stack |-> PDefault,
     cur_entry |-> Entry(NULL, NullObj, NULL, -1),
     last_exc_back |-> NoFrame,
     last_exc_firstlineno |-> 0]

\* Attributes of the objects the callbacks hand out, and the callbacks' logs.
ObjsInit ==
    [disp_trace |-> [f \in Files |-> should_trace(f).trace],
     coverage_enabled |-> [p \in Plugins |-> TRUE],
     warnings |-> <<>>,
     st_calls |-> [f \in Files |-> 0],
     ci_calls |-> [f \in DynNames |-> 0],
     junk |-> JunkEmpty,
     crashed |-> FALSE]

----------------------------------------------------------------------------
(* Bounds *)

MaxEvents == 3
MaxLine == 2
MaxLen == 3
MaxCoLen == 1
MaxNest == 5
MaxN == 101
MaxInterns == 4

Lines == 1..MaxLine
Contexts == {"X", "Y"}
NoCo == "-"

----------------------------------------------------------------------------
(* State, and the delivery of one event *)

State == self @@ objs @@ [ret |-> RET_OK]

Install(s) ==
    /\ self' = [k \in DOMAIN self |-> s[k]]
    /\ objs' = [k \in DOMAIN objs |-> s[k]]

\* The data stack CTracer_set_pdata_stack resolves for the identity co, as it
\* is before the event (a stack not yet registered starts empty).
Resolved(co) ==
    IF self.concur_id_func = Py_None
    THEN self.data_stack
    ELSE IF /\ co \in DOMAIN self.data_stack_index
            /\ self.data_stack_index[co] \in DOMAIN self.data_stacks
         THEN self.data_stacks[self.data_stack_index[co]]
         ELSE DataStack_init

\* What is remembered of the step taken last: the event, its status and the
\* number of steps so far.
Seen(e, ret, n) == [e |-> e, ret |-> ret, n |-> n]

NoEvent == Event("none", NoFrame, 0, TRUE, FALSE, NoCo, "ok", "True", "None",
                 Range(0, 0), FALSE, FALSE)

Control(what) == [NoEvent EXCEPT !.what = what]

\* The host calls CTracer_trace only while the trace function is attached.
Deliver(e) ==
    /\ self.started
    /\ ~objs.crashed
    /\ LET s == CTracer_trace(State, e.frame, e) IN
       /\ Install(s)
       /\ ev' = Seen(e, s.ret, ev.n + 1)

\* What concur_id_func() may return
Cos == IF self.concur_id_func = Py_None THEN {NoCo} ELSE Contexts

\* Outcomes of the external calls a call event can reach: should_trace is
\* called on a cache miss only, realloc when the stack is full only.
StOutcomes(f) ==
    IF FrameTable[f].co_filename \in DOMAIN self.should_trace_cache
    THEN {"ok"} ELSE {"ok", "raise"}

GrowOutcomes(co) ==
    IF Resolved(co).depth + 1 >= Resolved(co).alloc THEN BOOLEAN ELSE {FALSE}

Start ==
    /\ ~self.started
    /\ ~objs.crashed
    /\ Install(CTracer_start(State))
    /\ ev' = Seen(Control("start"), RET_OK, ev.n)
    /\ UNCHANGED <<script, pc, nest>>

Stop ==
    /\ ev.n < MaxEvents
    /\ ~objs.crashed
    /\ Install(CTracer_stop(State))
    /\ ev' = Seen(Control("stop"), RET_OK, ev.n + 1)
    /\ UNCHANGED <<script, pc, nest>>

InitEv == Seen(NoEvent, RET_OK, 0)

IdleScript == <<>>
IdleNest == [n |-> 0, level |-> 0, phase |-> "idle"]

----------------------------------------------------------------------------
(* Spec: any events on the native frames of two contexts *)

NativeFrames == {1, 2}

CallEvent ==
    /\ ev.n < MaxEvents
    /\ \E f \in NativeFrames, co \in Cos, fresh \in BOOLEAN :
       \E st \in StOutcomes(f), gf \in GrowOutcomes(co) :
          Deliver(Event("call", f, MaxLine, fresh, FALSE, co, st, "True", "None",
                        Range(0, 0), gf, FALSE))
    /\ UNCHANGED <<script, pc, nest>>

LineEvent ==
    /\ ev.n < MaxEvents
    /\ \E f \in NativeFrames, co \in Cos, l \in Lines :
          Deliver(Event("line", f, l, FALSE, FALSE, co, "ok", "True", "None",
                        Range(0, 0), FALSE, FALSE))
    /\ UNCHANGED <<script, pc, nest>>

ReturnEvent ==
    /\ ev.n < MaxEvents
    /\ \E f \in NativeFrames, co \in Cos, y \in BOOLEAN :
          Deliver(Event("return", f, 1, FALSE, y, co, "ok", "True", "None",
                        Range(0, 0), FALSE, FALSE))
    /\ UNCHANGED <<script, pc, nest>>

ExceptionEvent ==
    /\ ev.n < MaxEvents
    /\ \E f \in NativeFrames, co \in Cos :
          Deliver(Event("exception", f, 1, FALSE, FALSE, co, "ok", "True", "None",
                        Range(0, 0), FALSE, FALSE))
    /\ UNCHANGED <<script, pc, nest>>

Init ==
    /\ \E arcs \in BOOLEAN : self = CTracer_init(arcs, "concur_id")
    /\ objs = ObjsInit
    /\ ev = InitEv
    /\ script = IdleScript
    /\ pc = IdleScript
    /\ nest = IdleNest

Next ==
    \/ Start
    \/ Stop
    \/ CallEvent
    \/ LineEvent
    \/ ReturnEvent
    \/ ExceptionEvent

Spec == Init /\ [][Next]_vars

----------------------------------------------------------------------------
(* SpecLife: as Spec, and start() may also be called on a started tracer   *)

Restart ==
    /\ ev.n < MaxEvents
    /\ self.started
    /\ ~objs.crashed
    /\ Install(CTracer_start(State))
    /\ ev' = Seen(Control("start"), RET_OK, ev.n + 1)
    /\ UNCHANGED <<script, pc, nest>>

NextLife ==
    \/ Start
    \/ Restart
    \/ Stop
    \/ CallEvent
    \/ LineEvent
    \/ ReturnEvent
    \/ ExceptionEvent

SpecLife == Init /\ [][NextLife]_vars

----------------------------------------------------------------------------
(* SpecFault: as Spec, and concur_id_func() may raise                      *)

\* An event during which concur_id_func(), if it is called, raises.
IdentityFails ==
    /\ ev.n < MaxEvents
    /\ \E what \in {"call", "line", "return", "exception"}, f \in NativeFrames :
          Deliver(Event(what, f, 1, FALSE, FALSE, CoRaises, "ok", "True", "None",
                        Range(0, 0), FALSE, FALSE))
    /\ UNCHANGED <<script, pc, nest>>

NextFault ==
    \/ Start
    \/ Stop
    \/ CallEvent
    \/ LineEvent
    \/ ReturnEvent
    \/ ExceptionEvent
    \/ IdentityFails

SpecFault == Init /\ [][NextFault]_vars

----------------------------------------------------------------------------
(* SpecNoMemory: as Spec, and growing the array of data stacks may fail    *)

\* A call or return for an identity not yet registered, when the array of
\* data stacks has to grow and PyMem_Realloc returns NULL.
RegistryNoMemory ==
    /\ ev.n < MaxEvents
    /\ \E what \in {"call", "return"}, f \in NativeFrames, co \in Cos :
          /\ co \notin DOMAIN self.data_stack_index
          /\ self.data_stacks_used + 1 >= self.data_stacks_alloc
          /\ Deliver(Event(what, f, 1, FALSE, FALSE, co, "ok", "True", "None",
                           Range(0, 0), FALSE, TRUE))
    /\ UNCHANGED <<script, pc, nest>>

InitNoMemory ==
    /\ \E arcs \in BOOLEAN : self = CTracer_init(arcs, "concur_id")
    /\ \E j \in {JunkEmpty, JunkWild} : objs = [ObjsInit EXCEPT !.junk = j]
    /\ ev = InitEv
    /\ script = IdleScript
    /\ pc = IdleScript
    /\ nest = IdleNest

NextNoMemory ==
    \/ Start
    \/ Stop
    \/ CallEvent
    \/ LineEvent
    \/ ReturnEvent
    \/ ExceptionEvent
    \/ RegistryNoMemory

SpecNoMemory == InitNoMemory /\ [][NextNoMemory]_vars

----------------------------------------------------------------------------
(* SpecPlugin: any events on a native frame and two plugin-traced frames,  *)
(* one context, with every outcome of the file tracers' operations         *)

PluginFrames == {1, 4, 5}

\* What line_number_range may return (or raise) when the current entry has a
\* file tracer; without one it is not called.
RangeOutcomes ==
    IF self.cur_entry.file_data # NULL /\ self.cur_entry.file_tracer # Py_None
    THEN {Range(a, b) : a \in Lines \cup {-1}, b \in Lines}
            \cup {RangeRaises, RangeMalformed}
    ELSE {Range(0, 0)}

\* What dynamic_source_filename and check_include may return (or raise) for a
\* call into file f: only a traced disposition with a dynamic file name asks.
DynOutcomes(f) ==
    IF should_trace(FrameTable[f].co_filename).has_dynamic_filename
       /\ objs.disp_trace[FrameTable[f].co_filename]
    THEN {<<d, c>> : d \in DynNames, c \in {"True", "False", "raise"}}
            \cup {<<Py_None, "True">>, <<"raise", "True">>}
    ELSE {<<Py_None, "True">>}

PluginCall ==
    /\ ev.n < MaxEvents
    /\ \E f \in PluginFrames :
       \E dc \in DynOutcomes(f) :
          /\ dc[2] # "True" => dc[1] \notin DOMAIN self.should_trace_cache
          /\ Deliver(Event("call", f, 1, TRUE, FALSE, NoCo, "ok", dc[2], dc[1],
                           Range(0, 0), FALSE, FALSE))
    /\ UNCHANGED <<script, pc, nest>>

PluginLine ==
    /\ ev.n < MaxEvents
    /\ \E f \in PluginFrames, l \in Lines, r \in RangeOutcomes :
          /\ (r # Range(0, 0)) => l = 1
          /\ Deliver(Event("line", f, l, FALSE, FALSE, NoCo, "ok", "True", "None",
                           r, FALSE, FALSE))
    /\ UNCHANGED <<script, pc, nest>>

PluginReturn ==
    /\ ev.n < MaxEvents
    /\ \E f \in PluginFrames :
          Deliver(Event("return", f, 1, FALSE, FALSE, NoCo, "ok", "True", "None",
                        Range(0, 0), FALSE, FALSE))
    /\ UNCHANGED <<script, pc, nest>>

InitPlugin ==
    /\ \E arcs \in BOOLEAN : self = CTracer_init(arcs, Py_None)
    /\ objs = ObjsInit
    /\ ev = InitEv
    /\ script = IdleScript
    /\ pc = IdleScript
    /\ nest = IdleNest

NextPlugin ==
    \/ Start
    \/ PluginCall
    \/ PluginLine
    \/ PluginReturn

SpecPlugin == InitPlugin /\ [][NextPlugin]_vars

----------------------------------------------------------------------------
(* SpecDisable: as SpecPlugin, and for a call into a file whose disposition *)
(* disable_plugin has switched off, the file tracer and check_include are  *)
(* ready to answer anything, should they be asked                          *)

\* The file's disposition is cached and disable_plugin has set its trace
\* attribute to False.
DisabledFile(filename) ==
    /\ filename \in DOMAIN self.should_trace_cache
    /\ self.should_trace_cache[filename] = DispObj(filename)
    /\ should_trace(filename).trace
    /\ ~objs.disp_trace[filename]

CallDisabled ==
    /\ ev.n < MaxEvents
    /\ \E f \in PluginFrames :
       \E d \in DynNames \cup {Py_None, "raise"}, c \in {"True", "False", "raise"} :
          /\ DisabledFile(FrameTable[f].co_filename)
          /\ Deliver(Event("call", f, 1, TRUE, FALSE, NoCo, "raise", c, d,
                           Range(0, 0), FALSE, FALSE))
    /\ UNCHANGED <<script, pc, nest>>

NextDisable ==
    \/ Start
    \/ PluginCall
    \/ PluginLine
    \/ PluginReturn
    \/ CallDisabled

SpecDisable == InitPlugin /\ [][NextDisable]_vars

----------------------------------------------------------------------------
(* SpecEvery: as SpecPlugin, with exception events and with stop() and     *)
(* start() called at any time: every kind of event and control call        *)

NextEvery ==
    \/ Start
    \/ Stop
    \/ Restart
    \/ PluginCall
    \/ PluginLine
    \/ PluginReturn
    \/ ExceptionEvent

SpecEvery == InitPlugin /\ [][NextEvery]_vars

----------------------------------------------------------------------------
(* SpecScript: the host delivers given event sequences, one per context:   *)
(* a straight-line function (call, lines, return), or a call, a line and   *)
(* an exception followed by a call; two contexts interleave freely         *)

ScriptFrames == {1, 2, 3}

CallEv(f, co) ==
    Event("call", f, 1, TRUE, FALSE, co, "ok", "True", "None", Range(0, 0), FALSE, FALSE)
LineEv(f, l, co) ==
    Event("line", f, l, FALSE, FALSE, co, "ok", "True", "None", Range(0, 0), FALSE, FALSE)
ReturnEv(f, co) ==
    Event("return", f, 1, FALSE, FALSE, co, "ok", "True", "None", Range(0, 0), FALSE, FALSE)
ExceptionEv(f, co) ==
    Event("exception", f, 1, FALSE, FALSE, co, "ok", "True", "None", Range(0, 0), FALSE, FALSE)

LineSeqs(maxlen) == UNION {[1..k -> Lines] : k \in 1..maxlen}

Straight(f, ls, co) ==
    <<CallEv(f, co)>> \o [i \in 1..Len(ls) |-> LineEv(f, ls[i], co)]
        \o <<ReturnEv(f, co)>>

Unwound(f, l, g, co) ==
    <<CallEv(f, co), LineEv(f, l, co), ExceptionEv(f, co), CallEv(g, co)>>

StraightScripts(maxlen, co) ==
    {Straight(f, ls, co) : f \in ScriptFrames, ls \in LineSeqs(maxlen)}

UnwoundScripts(co) ==
    {Unwound(f, fl[1], fl[2], co) : f \in ScriptFrames, fl \in Lines \X ScriptFrames}

\* The next event of context c, if any
Pending(c) == pc[c] < Len(script[c])
NextEv(c) == script[c][pc[c] + 1]

Ready(c, what) == Pending(c) /\ NextEv(c).what = what

ScriptCall ==
    \E c \in DOMAIN script :
        /\ Ready(c, "call")
        /\ Deliver(NextEv(c))
        /\ pc' = [pc EXCEPT ![c] = @ + 1]
        /\ UNCHANGED <<script, nest>>

ScriptLine ==
    \E c \in DOMAIN script :
        /\ Ready(c, "line")
        /\ Deliver(NextEv(c))
        /\ pc' = [pc EXCEPT ![c] = @ + 1]
        /\ UNCHANGED <<script, nest>>

ScriptReturn ==
    \E c \in DOMAIN script :
        /\ Ready(c, "return")
        /\ Deliver(NextEv(c))
        /\ pc' = [pc EXCEPT ![c] = @ + 1]
        /\ UNCHANGED <<script, nest>>

ScriptException ==
    \E c \in DOMAIN script :
        /\ Ready(c, "exception")
        /\ Deliver(NextEv(c))
        /\ pc' = [pc EXCEPT ![c] = @ + 1]
        /\ UNCHANGED <<script, nest>>

InitScript ==
    /\ \E arcs \in BOOLEAN :
          \/ /\ self = CTracer_init(arcs, Py_None)
             /\ \E s \in StraightScripts(MaxLen, NoCo) \cup UnwoundScripts(NoCo) :
                   script = (NoCo :> s)
          \/ /\ self = CTracer_init(arcs, "concur_id")
             /\ \E sx \in StraightScripts(MaxCoLen, "X"),
                   sy \in StraightScripts(MaxCoLen, "Y") :
                   script = ("X" :> sx) @@ ("Y" :> sy)
    /\ pc = [c \in DOMAIN script |-> 0]
    /\ objs = ObjsInit
    /\ ev = InitEv
    /\ nest = IdleNest

NextScript ==
    \/ Start
    \/ ScriptCall
    \/ ScriptLine
    \/ ScriptReturn
    \/ ScriptException

SpecScript == InitScript /\ [][NextScript]_vars

----------------------------------------------------------------------------
(* SpecDeep: a recursion of depth n, one context: n nested calls, a line   *)
(* in each frame, then the n returns                                       *)

DeepFrame(level) == ((level - 1) % 3) + 1
DeepLineNo(level) == (level % MaxLine) + 1

DeepCall ==
    /\ nest.phase = "call"
    /\ nest.level < nest.n
    /\ Deliver(CallEv(DeepFrame(nest.level + 1), NoCo))
    /\ nest' = [nest EXCEPT !.level = @ + 1, !.phase = "line"]
    /\ UNCHANGED <<script, pc>>

\* The call whose push has to grow the stack and whose PyMem_Realloc returns
\* NULL: the trace function returns -1 and the host stops the run.
DeepCallNoMemory ==
    /\ nest.phase = "call"
    /\ nest.level < nest.n
    /\ TRUE \in GrowOutcomes(NoCo)
    /\ Deliver([CallEv(DeepFrame(nest.level + 1), NoCo) EXCEPT !.grow_fails = TRUE])
    /\ nest' = [nest EXCEPT !.phase = "failed"]
    /\ UNCHANGED <<script, pc>>

DeepLine ==
    /\ nest.phase = "line"
    /\ Deliver(LineEv(DeepFrame(nest.level), DeepLineNo(nest.level), NoCo))
    /\ nest' = [nest EXCEPT !.phase = IF nest.level = nest.n THEN "return" ELSE "call"]
    /\ UNCHANGED <<script, pc>>

DeepReturn ==
    /\ nest.phase = "return"
    /\ nest.level > 0
    /\ Deliver(ReturnEv(DeepFrame(nest.level), NoCo))
    /\ nest' = [nest EXCEPT !.level = @ - 1]
    /\ UNCHANGED <<script, pc>>

InitDeep ==
    /\ \E arcs \in BOOLEAN : self = CTracer_init(arcs, Py_None)
    /\ \E n \in 1..MaxN : nest = [n |-> n, level |-> 0, phase |-> "call"]
    /\ objs = ObjsInit
    /\ ev = InitEv
    /\ script = IdleScript
    /\ pc = IdleScript

NextDeep ==
    \/ Start
    \/ DeepCall
    \/ DeepCallNoMemory
    \/ DeepLine
    \/ DeepReturn

SpecDeep == InitDeep /\ [][NextDeep]_vars

----------------------------------------------------------------------------
(* SpecNested: one context, any properly nested events: a call of any      *)
(* frame (a true call or a generator re-entry), a line or the return of    *)
(* the innermost open frame.  nest remembers the open frames, the current  *)
(* entry found by each open call, and the one the last return must restore *)

NestedCall ==
    /\ ev.n < MaxNest
    /\ \E f \in ScriptFrames, fresh \in BOOLEAN :
          Deliver([CallEv(f, NoCo) EXCEPT !.f_lineno = MaxLine, !.f_lasti_neg = fresh])
    /\ nest' = [open |-> Append(nest.open, ev'.e.frame),
                saved |-> Append(nest.saved, self.cur_entry),
                restored |-> nest.restored,
                phase |-> "called"]
    /\ UNCHANGED <<script, pc>>

NestedLine ==
    /\ ev.n < MaxNest
    /\ nest.open # <<>>
    /\ \E l \in Lines : Deliver(LineEv(nest.open[Len(nest.open)], l, NoCo))
    /\ nest' = [nest EXCEPT !.phase = "line"]
    /\ UNCHANGED <<script, pc>>

NestedReturn ==
    /\ ev.n < MaxNest
    /\ nest.open # <<>>
    /\ Deliver(ReturnEv(nest.open[Len(nest.open)], NoCo))
    /\ nest' = [open |-> SubSeq(nest.open, 1, Len(nest.open) - 1),
                saved |-> SubSeq(nest.saved, 1, Len(nest.saved) - 1),
                restored |-> nest.saved[Len(nest.saved)],
                phase |-> "returned"]
    /\ UNCHANGED <<script, pc>>

InitNested ==
    /\ \E arcs \in BOOLEAN : self = CTracer_init(arcs, Py_None)
    /\ nest = [open |-> <<>>, saved |-> <<>>,
               restored |-> Entry(NULL, NullObj, NULL, -1), phase |-> "idle"]
    /\ objs = ObjsInit
    /\ ev = InitEv
    /\ script = IdleScript
    /\ pc = IdleScript

NextNested ==
    \/ Start
    \/ NestedCall
    \/ NestedLine
    \/ NestedReturn

SpecNested == InitNested /\ [][NextNested]_vars

----------------------------------------------------------------------------
(* The interning cache (InternTable): an open-addressed table from a key   *)
(* packed out of one or two integers to the record built for them.  Its    *)
(* operations are modelled from the specification; the integers are        *)
(* HalfBits wide here, the key twice that.                                 *)

HalfBits == 2
MinInt == -(2 ^ (HalfBits - 1))

\* The bits of a signed integer as an unsigned half word
Unsigned(a) == a % (2 ^ HalfBits)

\* Two signed integers packed into one key
PackPair(a, b) == Unsigned(a) * (2 ^ HalfBits) + Unsigned(b)

\* A single integer packed with the discriminant bit, the key's top bit
PackSingle(a) == 2 ^ (2 * HalfBits - 1) + Unsigned(a)

\* The inputs of an intern call: a pair or a single value
PairIn(a, b) == [kind |-> "pair", a |-> a, b |-> b]
SingleIn(a) == [kind |-> "single", a |-> a, b |-> 0]

KeyOf(in) == IF in.kind = "pair" THEN PackPair(in.a, in.b) ELSE PackSingle(in.a)

\* An output record: which allocation it is, and what it holds
Record(id, in) == [id |-> id, content |-> in]
NoRecord == Record(-1, [kind |-> "none", a |-> 0, b |-> 0])

\* An entry whose key is 0 is an unused slot
UnusedEntry == [key |-> 0, value |-> NoRecord]

InitialCapacity == 2

\* About 0.7 of the capacity
MaxFillOf(capacity) == (7 * capacity) \div 10

InternTable_init ==
    [zero_value |-> NoRecord,
     capacity |-> InitialCapacity,
     current_fill |-> 0,
     max_fill |-> MaxFillOf(InitialCapacity),
     entries |-> [i \in 0..(InitialCapacity - 1) |-> UnusedEntry]]

\* Linear probing from slot i: the slot that holds the key, or the first
\* unused one.
RECURSIVE Probe(_, _, _)
Probe(t, key, i) ==
    IF t.entries[i].key = key \/ t.entries[i].key = 0
    THEN i
    ELSE Probe(t, key, (i + 1) % t.capacity)

\* Store an entry for a key the table does not hold
InternTable_insert(t, key, value) ==
    [t EXCEPT !.entries[Probe(t, key, key % t.capacity)] = [key |-> key, value |-> value],
              !.current_fill = @ + 1]

\* Reinsert the entries old[i..] into t
RECURSIVE Reinsert(_, _, _)
Reinsert(t, old, i) ==
    IF i \notin DOMAIN old
    THEN t
    ELSE Reinsert(IF old[i].key = 0 THEN t
                  ELSE InternTable_insert(t, old[i].key, old[i].value),
                  old, i + 1)

\* A resize that copies each entry to the slot index it had
InternTable_resize_NoRehash(t) ==
    [t EXCEPT !.capacity = 2 * @,
              !.max_fill = MaxFillOf(2 * t.capacity),
              !.entries = [i \in 0..(2 * t.capacity - 1) |->
                              IF i \in DOMAIN t.entries THEN t.entries[i]
                              ELSE UnusedEntry]]

\* Double the capacity, recompute max_fill and reinsert every entry; the
\* zero slot stays as it is.
InternTable_resize(t) ==
    Reinsert([t EXCEPT !.capacity = 2 * @,
                       !.max_fill = MaxFillOf(2 * t.capacity),
                       !.current_fill = 0,
                       !.entries = [i \in 0..(2 * t.capacity - 1) |-> UnusedEntry]],
             t.entries, 0)

\* intern that keeps the zero key in the entries like any other key
intern_ZeroInline(t, in, id) ==
    LET key == KeyOf(in)
        slot == Probe(t, key, key % t.capacity)
    IN  IF t.entries[slot].key = key /\ t.entries[slot].value # NoRecord
        THEN [t |-> t, value |-> t.entries[slot].value]
        ELSE LET t1 == [t EXCEPT !.entries[slot] =
                                    [key |-> key, value |-> Record(id, in)],
                                 !.current_fill = @ + 1]
             IN  [t |-> IF t1.current_fill > t1.max_fill
                        THEN InternTable_resize(t1) ELSE t1,
                  value |-> Record(id, in)]

\* The lookup of both intern operations: the cached record of the input's
\* key, or a new record, built as allocation id and inserted.
\* Gives [t, value].
intern(t, in, id) ==
    LET key == KeyOf(in) IN
    IF key = 0
    THEN IF t.zero_value # NoRecord
         THEN [t |-> t, value |-> t.zero_value]
         ELSE [t |-> [t EXCEPT !.zero_value = Record(id, in)],
               value |-> Record(id, in)]
    ELSE LET slot == Probe(t, key, key % t.capacity) IN
         IF t.entries[slot].key = key
         THEN [t |-> t, value |-> t.entries[slot].value]
         ELSE LET t1 == InternTable_insert(t, key, Record(id, in)) IN
              [t |-> IF t1.current_fill > t1.max_fill
                     THEN InternTable_resize(t1) ELSE t1,
               value |-> Record(id, in)]

----------------------------------------------------------------------------
(* SpecIntern: any sequence of intern calls on the tracer's table.  nest   *)
(* remembers the last call and the record each input got first             *)

InternValues == {MinInt, 0, 1}

\* What nest remembers after the call with input in returned r
Remember(in, r) ==
    [input |-> in,
     output |-> r.value,
     allocs |-> IF r.value.id = nest.allocs THEN nest.allocs + 1 ELSE nest.allocs,
     made |-> IF in \in DOMAIN nest.made THEN nest.made
              ELSE (in :> r.value) @@ nest.made]

internPair ==
    /\ ev.n < MaxInterns
    /\ \E a, b \in InternValues :
          LET r == intern(self.intern_table, PairIn(a, b), nest.allocs) IN
          /\ self' = [self EXCEPT !.intern_table = r.t]
          /\ nest' = Remember(PairIn(a, b), r)
    /\ ev' = Seen(Control("intern"), RET_OK, ev.n + 1)
    /\ UNCHANGED <<objs, script, pc>>

internSingle ==
    /\ ev.n < MaxInterns
    /\ \E a \in InternValues :
          LET r == intern(self.intern_table, SingleIn(a), nest.allocs) IN
          /\ self' = [self EXCEPT !.intern_table = r.t]
          /\ nest' = Remember(SingleIn(a), r)
    /\ ev' = Seen(Control("intern"), RET_OK, ev.n + 1)
    /\ UNCHANGED <<objs, script, pc>>

InitIntern ==
    /\ self = [intern_table |-> InternTable_init] @@ CTracer_init(FALSE, Py_None)
    /\ nest = [input |-> NoRecord.content, output |-> NoRecord,
               allocs |-> 0, made |-> <<>>]
    /\ objs = ObjsInit
    /\ ev = InitEv
    /\ script = IdleScript
    /\ pc = IdleScript

NextIntern ==
    \/ internPair
    \/ internSingle

SpecIntern == InitIntern /\ [][NextIntern]_vars

----------------------------------------------------------------------------
(* Properties of scripted runs *)

Solo == DOMAIN script = {NoCo}
Duo == DOMAIN script = Contexts
AllDone == \A c \in DOMAIN script : pc[c] = Len(script[c])

IsStraight(s) ==
    /\ Len(s) >= 3
    /\ s[1].what = "call"
    /\ s[Len(s)].what = "return"
    /\ \A i \in 2..(Len(s) - 1) : s[i].what = "line"

IsUnwound(s) == Len(s) = 4 /\ s[3].what = "exception"

\* The lines L1..Ln of a straight script, in order
LineNos(s) == [i \in 1..(Len(s) - 2) |-> s[i + 1].f_lineno]

FileOf(f) == FrameTable[f].co_filename
FirstLineOf(f) == FrameTable[f].co_firstlineno
Traced(f) == should_trace(FileOf(f)).trace

ConsecutivePairs(ls) == {<<ls[i], ls[i + 1]>> : i \in 1..(Len(ls) - 1)}

SoloStraightDone(arcs) ==
    /\ Solo
    /\ AllDone
    /\ IsStraight(script[NoCo])
    /\ Traced(script[NoCo][1].frame)
    /\ self.arcs = arcs

\* C1: in line mode, one context, no file tracer: after CALL f, LINE L1 ..
\* LINE Ln, RETURN f of a traced function, the recorded data holds exactly
\* one file, f's, and its set is exactly {L1..Ln}.
C1_LineSetExact ==
    SoloStraightDone(FALSE) =>
        LET s == script[NoCo] IN
        self.data = (FileOf(s[1].frame) :> {LineNos(s)[i] : i \in DOMAIN LineNos(s)})

C1_Witness ==
    /\ SoloStraightDone(FALSE)
    /\ Len(script[NoCo]) = MaxLen + 2
    /\ LET s == script[NoCo] IN
       /\ Cardinality({LineNos(s)[i] : i \in DOMAIN LineNos(s)}) = MaxLine
       /\ self.data[FileOf(s[1].frame)] = 1..MaxLine

\* C2 as stated: in arc mode the recorded arc set is exactly the consecutive
\* pairs (L1,L2) .. (Ln-1,Ln) and the exit arc (Ln,-firstLine).
C2_ArcSetAsClaimed ==
    SoloStraightDone(TRUE) =>
        LET s == script[NoCo]
            ls == LineNos(s)
        IN  self.data = (FileOf(s[1].frame) :>
                (ConsecutivePairs(ls) \cup {<<ls[Len(ls)], -FirstLineOf(s[1].frame)>>}))

\* C2 amended: the recorded arc set is exactly the entry arc (-1,L1), the
\* consecutive pairs and the exit arc (Ln,-firstLine).
C2_ArcSetExact ==
    SoloStraightDone(TRUE) =>
        LET s == script[NoCo]
            ls == LineNos(s)
        IN  self.data = (FileOf(s[1].frame) :>
                ({<<-1, ls[1]>>} \cup ConsecutivePairs(ls)
                    \cup {<<ls[Len(ls)], -FirstLineOf(s[1].frame)>>}))

C2_Witness ==
    /\ SoloStraightDone(TRUE)
    /\ Len(script[NoCo]) = MaxLen + 2
    /\ LET s == script[NoCo] IN
       /\ LineNos(s)[1] # LineNos(s)[2]
       /\ Cardinality(self.data[FileOf(s[1].frame)]) = MaxLen + 1

\* The run of one script alone, from a started tracer
RECURSIVE RunFrom(_, _, _)
RunFrom(s, scr, i) ==
    IF i > Len(scr) THEN s ELSE RunFrom(CTracer_trace(s, scr[i].frame, scr[i]), scr, i + 1)

RunAlone(scr) ==
    RunFrom(CTracer_start(CTracer_init(self.arcs, self.concur_id_func)
                            @@ ObjsInit @@ [ret |-> RET_OK]), scr, 1)

DataAt(data, name) == IF name \in DOMAIN data THEN data[name] ELSE {}

\* C3: two contexts X and Y, each delivering its own call/line/return
\* sequence, interleaved: once both are done, every file's recorded data is
\* what the two sequences record when each is run alone.
C3_NoCrossContamination ==
    (Duo /\ AllDone) =>
        \A name \in Names :
            DataAt(self.data, name) =
                DataAt(RunAlone(script["X"]).data, name)
                    \cup DataAt(RunAlone(script["Y"]).data, name)

UnwoundDone == Solo /\ AllDone /\ IsUnwound(script[NoCo])

TrackedEntries == PStack(self).depth + 1

ExitArcRecorded(s) ==
    (self.arcs /\ Traced(s[1].frame)) =>
        <<s[2].f_lineno, -FirstLineOf(s[1].frame)>> \in self.data[FileOf(s[1].frame)]

\* C4 as stated: after [CALL fA, LINE fA:l, EXC fA, CALL fA], the second call
\* on the same frame fA, the stack holds 1 entry and, with arcs and fA
\* traced, the data has the exit arc (l,-firstLineOfA).
C4_SameFrameAsClaimed ==
    (UnwoundDone /\ script[NoCo][4].frame = script[NoCo][1].frame) =>
        /\ TrackedEntries = 1
        /\ ExitArcRecorded(script[NoCo])

\* C4 amended: after [CALL fA, LINE fA:l, EXC fA, CALL fP] where fP is the
\* caller frame of fA (the frame the exception event remembered), the stack
\* holds 1 entry and, with arcs and fA traced, the data has the exit arc
\* (l,-firstLineOfA).
C4_CallerFrameRecovers ==
    (UnwoundDone /\ script[NoCo][4].frame = FrameTable[script[NoCo][1].frame].f_back) =>
        /\ TrackedEntries = 1
        /\ ExitArcRecorded(script[NoCo])

C4_Witness ==
    /\ UnwoundDone
    /\ script[NoCo][4].frame = FrameTable[script[NoCo][1].frame].f_back
    /\ self.arcs
    /\ Traced(script[NoCo][1].frame)
    /\ TrackedEntries = 1
    /\ <<script[NoCo][2].f_lineno, -FirstLineOf(script[NoCo][1].frame)>>
            \in self.data[FileOf(script[NoCo][1].frame)]

----------------------------------------------------------------------------
(* Properties of recursion runs *)

\* C6: in a recursion of depth n the number of tracked entries (depth + 1)
\* is the number of calls not yet returned: n after the nth call, 0 after
\* the nth return, also when n exceeds the allocated capacity.
C6_DepthFollowsNesting ==
    (nest.phase # "idle") => self.data_stack.depth + 1 = nest.level

C6_Witness ==
    /\ nest.n = MaxN
    /\ nest.phase = "return"
    /\ nest.level = 0
    /\ ev.e.what = "return"
    /\ self.data_stack.depth = -1
    /\ self.data_stack.alloc > STACK_DELTA

\* C7: when a push grows the stack, every entry at the indices in use before
\* the push is the same after it.
C7_GrowthKeepsEntries ==
    [][ (self'.data_stack.alloc > self.data_stack.alloc) =>
            \A i \in 0..self.data_stack.depth :
                /\ i \in DOMAIN self'.data_stack.stack
                /\ self'.data_stack.stack[i] = self.data_stack.stack[i] ]_vars

C7_Witness ==
    /\ ev.e.what = "call"
    /\ self.data_stack.depth = STACK_DELTA
    /\ self.data_stack.alloc = STACK_DELTA + STACK_DELTA
    /\ self.data_stack.stack[1] # self.data_stack.stack[2]
    /\ self.data_stack.stack[STACK_DELTA - 2].file_data # NULL

----------------------------------------------------------------------------
(* Properties of single events *)

\* The step delivers an event of kind what
EventStep(what) == ev'.n = ev.n + 1 /\ ev'.e.what = what

\* The data stack registered for identity co in the tracer slf
ResolvedIn(slf, co) ==
    IF slf.concur_id_func = Py_None
    THEN slf.data_stack
    ELSE IF /\ co \in DOMAIN slf.data_stack_index
            /\ slf.data_stack_index[co] \in DOMAIN slf.data_stacks
         THEN slf.data_stacks[slf.data_stack_index[co]]
         ELSE DataStack_init

\* The event's frame is the one the last exception event remembered, so
\* that missing-return recovery synthesizes a return before the handler.
Recovers == self.last_exc_back # NoFrame /\ ev'.e.frame = self.last_exc_back

\* The step is a call of start(), or of stop()
StartStep == ev'.e.what = "start" /\ ev' # ev
StopStep == EventStep("stop")

\* C13: start() marks the tracer started (the callback attached) and sets
\* cur_entry.last_line to -1, leaving the rest of the current entry, the
\* data and the should-trace cache unchanged; stop() on a started tracer
\* only marks it not started; stop() on a tracer not started changes
\* nothing; no event changes started.  So started is whether the last of
\* the start/stop calls was start.
C13_StartStop ==
    [][ /\ StartStep =>
            /\ self'.started
            /\ self'.cur_entry = [self.cur_entry EXCEPT !.last_line = -1]
            /\ self'.data = self.data
            /\ self'.should_trace_cache = self.should_trace_cache
        /\ StopStep =>
            /\ self' = [self EXCEPT !.started = FALSE]
            /\ objs' = objs
        /\ ~(StartStep \/ StopStep) => self'.started = self.started ]_vars

\* start() called after a line was recorded in the current frame
C13_Witness ==
    /\ ev.e.what = "start"
    /\ self.started
    /\ self.cur_entry.file_data = "A"
    /\ self.cur_entry.last_line = -1
    /\ self.data["A"] # {}

\* C11: when the allocation of a push fails, the call event reports an
\* error and the stack is as before the push: depth, capacity and every
\* entry are unchanged, no new entry is written, and the current entry and
\* the recorded data are unchanged.
C11_FailedGrowthKeepsStack ==
    [][ (EventStep("call") /\ ev'.e.grow_fails) =>
            /\ ev'.ret = RET_ERROR
            /\ self'.data_stack = self.data_stack
            /\ self'.cur_entry = self.cur_entry
            /\ self'.data = self.data ]_vars

\* The push at depth STACK_DELTA - 1, with STACK_DELTA entries in use, failed.
C11_Witness ==
    /\ nest.phase = "failed"
    /\ ev.e.what = "call"
    /\ ev.e.grow_fails
    /\ ev.ret = RET_ERROR
    /\ self.data_stack.depth = STACK_DELTA - 1
    /\ self.data_stack.alloc = STACK_DELTA
    /\ self.data_stack.stack[STACK_DELTA - 2].file_data # NULL

\* The step is a call event in which should_trace, or check_include, was
\* called and raised.
ShouldTraceFails ==
    EventStep("call") /\ ~ev'.e.grow_fails /\ ev'.e.st = "raise"

CheckIncludeFails ==
    EventStep("call") /\ ~ev'.e.grow_fails /\ ev'.e.ci = "raise"

\* C12: a call event in which should_trace or check_include fails returns an
\* error and writes nothing: the resolved stack's depth, the current entry,
\* the should-trace cache and the recorded data are as before the event.
C12_FailedCallWritesNothing ==
    [][ ((ShouldTraceFails \/ CheckIncludeFails) /\ ~Recovers) =>
            /\ ev'.ret = RET_ERROR
            /\ ResolvedIn(self', ev'.e.co).depth = ResolvedIn(self, ev'.e.co).depth
            /\ self'.cur_entry = self.cur_entry
            /\ self'.should_trace_cache = self.should_trace_cache
            /\ self'.data = self.data ]_vars

\* The stack resolved for the event's context, before and after the step
Pre == ResolvedIn(self, ev'.e.co)
Post == ResolvedIn(self', ev'.e.co)

\* Recovery synthesizes a return that finds the stack non-empty
Synth == Recovers /\ Pre.depth >= 0
SynthPops == IF Synth THEN 1 ELSE 0

\* The arc of the synthesized return is due: arc mode, traced current entry
SynthArcDue == Synth /\ self.tracing_arcs /\ self.cur_entry.file_data # NULL
SynthArc == <<self.cur_entry.last_line, -self.last_exc_firstlineno>>

\* What the handler of a successful event adds to the depth it finds
HandlerPushes ==
    CASE ev'.e.what = "call" -> 1
      [] ev'.e.what = "return" -> IF Pre.depth - SynthPops >= 0 THEN -1 ELSE 0
      [] OTHER -> 0

\* C14: before the handler of every event, when an exception is remembered
\* and the event's frame is the remembered caller frame, one return is
\* synthesized: on a non-empty stack one pop that restores the saved entry,
\* preceded in arc mode with a traced current entry by the arc
\* (last_line, -remembered first line); when the frame differs, or no
\* exception is remembered, there is no pop and no arc.  The depth after a
\* successful event is the depth before, less the synthesized pop, plus the
\* handler's own push or pop; an exception event, whose handler touches
\* neither stack, entry nor data, shows the recovery alone.
C14_RecoveryBeforeHandler ==
    [][ \A what \in {"call", "line", "return", "exception"} : EventStep(what) =>
            /\ (ev'.ret = RET_OK) => Post.depth = Pre.depth - SynthPops + HandlerPushes
            /\ SynthArcDue => SynthArc \in self'.data[self.cur_entry.file_data]
            /\ (what = "exception") =>
                /\ Post.stack = Pre.stack
                /\ self'.cur_entry = IF Synth THEN StackRead(Pre, Pre.depth)
                                     ELSE self.cur_entry
                /\ self'.data = IF SynthArcDue
                                THEN [self.data EXCEPT ![self.cur_entry.file_data] =
                                                            @ \cup {SynthArc}]
                                ELSE self.data ]_vars

\* Call of frame 2 (re-entered at line MaxLine), exception in it, then an
\* exception event in its caller, frame 1: the synthesized return recorded
\* the exit arc of frame 2 and popped its entry.
C14_Witness ==
    /\ ev.e.what = "exception"
    /\ ev.e.frame = 1
    /\ ev.e.co = "X"
    /\ ev.n = 3
    /\ self.tracing_arcs
    /\ ResolvedIn(self, "X").depth = -1
    /\ "B" \in DOMAIN self.data
    /\ self.data["B"] = {<<MaxLine, -FirstLineOf(2)>>}
    /\ self.cur_entry.file_data = NULL

\* C15: the recovery step of the next event clears the remembered exception
\* whether or not the frame matched and whatever the outcome of the
\* synthesized return: after any event other than an exception event no
\* exception is remembered.
C15_PendingCleared ==
    (ev.e.what \in {"call", "line", "return"}) => self.last_exc_back = NoFrame

\* C16: the handler of an exception event changes only the remembered
\* exception (caller frame := the frame's f_back, first line := the frame's
\* co_firstlineno): when no return is synthesized before it, every stack,
\* the current entry, the registry, the caches, the data and the external
\* objects are as before the event, and the event succeeds.
C16_ExceptionOnlyRemembers ==
    [][ (EventStep("exception") /\ ~Recovers) =>
            /\ ev'.ret = RET_OK
            /\ self' = [self EXCEPT
                          !.last_exc_back = FrameTable[ev'.e.frame].f_back,
                          !.last_exc_firstlineno = FirstLineOf(ev'.e.frame)]
            /\ objs' = objs ]_vars

\* An exception event in frame 2 after a call and a recorded line
C16_Witness ==
    /\ ev.e.what = "exception"
    /\ ev.e.frame = 2
    /\ ev.n = 3
    /\ self.last_exc_back = 1
    /\ self.last_exc_firstlineno = FirstLineOf(2)
    /\ ResolvedIn(self, ev.e.co).depth = 0
    /\ self.cur_entry.file_data = "B"
    /\ self.data["B"] # {}

\* The exit arc a return event in the current frame records
ExitArc == <<self.cur_entry.last_line, -FirstLineOf(ev'.e.frame)>>

\* C17: a return event on a non-empty stack, in arc mode with a traced
\* current entry, adds the exit arc (last_line, -co_firstlineno) to the
\* current file's data when it is a true return and adds nothing when the
\* instruction at f_lasti is YIELD_VALUE; either way the stack is popped
\* once and the saved entry becomes current.
C17_ExitArcUnlessYield ==
    [][ ( /\ EventStep("return")
          /\ ~Recovers
          /\ Pre.depth >= 0
          /\ self.tracing_arcs
          /\ self.cur_entry.file_data # NULL ) =>
            /\ ev'.ret = RET_OK
            /\ Post.depth = Pre.depth - 1
            /\ Post.stack = Pre.stack
            /\ self'.cur_entry = StackRead(Pre, Pre.depth)
            /\ self'.data = IF ev'.e.yield
                            THEN self.data
                            ELSE [self.data EXCEPT ![self.cur_entry.file_data] =
                                                        @ \cup {ExitArc}] ]_vars

\* Call of frame 1, line 1, then a return at a yield: only the entry arc
C17_Witness ==
    /\ ev.e.what = "return"
    /\ ev.e.yield
    /\ ev.e.frame = 1
    /\ ev.ret = RET_OK
    /\ ev.n = 3
    /\ self.tracing_arcs
    /\ ResolvedIn(self, ev.e.co).depth = -1
    /\ "A" \in DOMAIN self.data
    /\ self.data["A"] = {<<-1, 1>>}

\* C18: in one context, after the return that matches a call, with any
\* properly nested events between them, the current entry is the current
\* entry found by that call.
C18_ReturnRestoresEntry ==
    (nest.phase = "returned") => self.cur_entry = nest.restored

\* Call of frame 1, a line at MaxLine, call of frame 2, a line, its return:
\* frame 1's entry, with its own last line, is current again.
C18_Witness ==
    /\ nest.phase = "returned"
    /\ nest.open = <<1>>
    /\ ev.n = 5
    /\ self.cur_entry.file_data = "A"
    /\ self.cur_entry.last_line = MaxLine
    /\ "B" \in DOMAIN self.data
    /\ self.data["B"] # {}

\* The last line a call event sets: -1 for a true call (f_lasti < 0), the
\* frame's current line for a generator re-entry
LastLineOfCall(e) == IF e.f_lasti_neg THEN -1 ELSE e.f_lineno

\* C19: after a successful call event cur_entry.last_line is -1 for a true
\* call and the frame's current line for a generator re-entry; so in arc
\* mode the arc a line event at L records right after the call, in a frame
\* of a native file, is (-1, L), or (resume line, L).
C19_LastLineAfterCall ==
    [][ /\ (EventStep("call") /\ ev'.ret = RET_OK) =>
                self'.cur_entry.last_line = LastLineOfCall(ev'.e)
        /\ ( /\ EventStep("line")
             /\ ev.e.what = "call"
             /\ ev.ret = RET_OK
             /\ ~Recovers
             /\ self.tracing_arcs
             /\ self.cur_entry.file_data # NULL
             /\ self.cur_entry.file_tracer = Py_None ) =>
                <<LastLineOfCall(ev.e), ev'.e.f_lineno>>
                    \in self'.data[self.cur_entry.file_data] ]_vars

\* C23: on every call, line and return event the stack the handler uses is
\* the one registered for the identity concur_id_func() returns at that
\* event: after a call or a return pdata_stack is that identity's stack,
\* and a line event of an identity whose stack is empty, the depth test
\* being made on that stack, records nothing.
C23_ResolvedEveryEvent ==
    [][ /\ \A what \in {"call", "return"} :
                (EventStep(what) /\ ev'.ret = RET_OK) =>
                    /\ ev'.e.co \in DOMAIN self'.data_stack_index
                    /\ self'.pdata_stack = self'.data_stack_index[ev'.e.co]
        /\ (EventStep("line") /\ ~Recovers /\ Pre.depth < 0) =>
                self'.data = self.data ]_vars

\* C8 as stated: should_trace is invoked at most once per file.
C8_InvokedAtMostOnce ==
    \A f \in Files : objs.st_calls[f] <= 1

\* C8 amended: should_trace returns a disposition at most once per file: a
\* call event invokes it only on a cache miss, at most once, a successful
\* result is stored in the cache, and no step invokes it for, or replaces
\* the cache entry of, a file that is cached (an invocation that raises
\* stores nothing, so the file's next call event invokes it again).
C8_CachedDispositionReused ==
    [][ \A f \in Files :
            /\ (f \in DOMAIN self.should_trace_cache) =>
                    /\ objs'.st_calls[f] = objs.st_calls[f]
                    /\ f \in DOMAIN self'.should_trace_cache
                    /\ self'.should_trace_cache[f] = self.should_trace_cache[f]
            /\ (objs'.st_calls[f] # objs.st_calls[f]) =>
                    /\ EventStep("call")
                    /\ FileOf(ev'.e.frame) = f
                    /\ objs'.st_calls[f] = objs.st_calls[f] + 1
                    /\ (ev'.e.st = "ok") =>
                            /\ f \in DOMAIN self'.should_trace_cache
                            /\ self'.should_trace_cache[f] = DispObj(f) ]_vars

\* Two call events for file A have succeeded, the second from the cache.
C8_Witness ==
    /\ ev.e.what = "call"
    /\ ev.ret = RET_OK
    /\ FileOf(ev.e.frame) = "A"
    /\ objs.st_calls = [f \in Files |-> IF f = "A" THEN 1 ELSE 0]
    /\ \E i \in DOMAIN self.data_stacks : self.data_stacks[i].depth >= 1

\* C10: a return event, or the return synthesized before a line or an
\* exception event, that finds the resolved stack empty succeeds, leaves
\* that stack's depth at -1 and the current entry as it was, and records
\* nothing.
C10_ReturnOnEmptyStack ==
    [][ ( /\ ResolvedIn(self, ev'.e.co).depth < 0
          /\ \/ EventStep("return")
             \/ Recovers /\ (EventStep("line") \/ EventStep("exception")) )
        => /\ ev'.ret = RET_OK
           /\ ResolvedIn(self', ev'.e.co).depth = -1
           /\ self'.cur_entry = self.cur_entry
           /\ self'.data = self.data ]_vars

\* A return in context Y, whose stack was never pushed, while the current
\* entry is the one a call in another context established.
C10_Witness ==
    /\ ev.e.what = "return"
    /\ ev.e.co = "Y"
    /\ ev.ret = RET_OK
    /\ "Y" \in DOMAIN self.data_stack_index
    /\ ResolvedIn(self, "Y").depth = -1
    /\ ResolvedIn(self, "Y").alloc = 0
    /\ self.cur_entry.file_data = "A"

----------------------------------------------------------------------------
(* Properties of line ranges *)

\* The step is a line event in a frame traced through a file tracer, whose
\* line_number_range returns a pair
RangeStep ==
    /\ EventStep("line")
    /\ self.data_stack.depth >= 0
    /\ self.cur_entry.file_data # NULL
    /\ self.cur_entry.file_tracer # Py_None
    /\ ev'.e.lnr.kind = "ok"

\* C20: in arc mode, a line event whose range is [from, to] with from < to
\* records exactly one arc, (last_line, from), and none between the lines
\* of the range.
C20_OneArcPerRange ==
    [][ ( /\ RangeStep
          /\ self.tracing_arcs
          /\ ev'.e.lnr.from # -1
          /\ ev'.e.lnr.from < ev'.e.lnr.to ) =>
            self'.data = [self.data EXCEPT ![self.cur_entry.file_data] =
                            @ \cup {<<self.cur_entry.last_line, ev'.e.lnr.from>>}] ]_vars

\* C21: in line mode, a line event whose range is [from, to] with from # -1
\* adds every integer of from..to to the current file's set and nothing
\* else; with from > to it adds nothing.
C21_RangeLines ==
    [][ ( /\ RangeStep
          /\ ~self.tracing_arcs
          /\ ev'.e.lnr.from # -1 ) =>
            /\ ev'.ret = RET_OK
            /\ self'.data = [self.data EXCEPT ![self.cur_entry.file_data] =
                                @ \cup (ev'.e.lnr.from .. ev'.e.lnr.to)]
            /\ (ev'.e.lnr.from > ev'.e.lnr.to) => self'.data = self.data ]_vars

\* The range [1, MaxLine] was recorded, line by line, in P's set
C21_Witness ==
    /\ ev.e.what = "line"
    /\ ev.e.lnr = Range(1, MaxLine)
    /\ ev.ret = RET_OK
    /\ ~self.tracing_arcs
    /\ self.cur_entry.file_tracer = "T_P"
    /\ "P" \in DOMAIN self.data
    /\ self.data["P"] = 1..MaxLine

\* C22: a line event whose range starts at -1 records nothing, in line mode
\* and in arc mode, and leaves the current entry, its last_line included,
\* as it was, so that the next arc starts from the line recorded before.
C22_SuppressedLine ==
    [][ (RangeStep /\ ev'.e.lnr.from = -1) =>
            /\ ev'.ret = RET_OK
            /\ self'.data = self.data
            /\ self'.cur_entry = self.cur_entry ]_vars

\* In arc mode, after line 1 was recorded, an occurrence was suppressed
C22_Witness ==
    /\ ev.e.what = "line"
    /\ ev.e.lnr.kind = "ok"
    /\ ev.e.lnr.from = -1
    /\ ev.ret = RET_OK
    /\ self.tracing_arcs
    /\ self.cur_entry.file_tracer = "T_P"
    /\ self.cur_entry.last_line = 1
    /\ self.data["P"] = {<<-1, 1>>}

----------------------------------------------------------------------------
(* Properties of file tracer faults *)

\* The step is a line event in which line_number_range raised or returned
\* something that is no pair of integers.
RangeFails ==
    EventStep("line") /\ ev'.e.lnr.kind \in {"raise", "malformed"}

\* The step is a call event in which dynamic_source_filename raised.
DynamicNameFails ==
    EventStep("call") /\ ev'.e.dyn = "raise"

\* The file whose frame is current, and the plugin of its file tracer
CurFile == self.cur_entry.disposition.id
CurPlugin == PluginOf(self.cur_entry.file_tracer)

\* C5: when line_number_range fails in a line event of file F, one more
\* warning is emitted and F's disposition gets trace = False; from then on a
\* line event in a frame of F records nothing and warns no more, and a line
\* event in a traced frame of a native file still records its line.
C5_RangeFaultStopsFile ==
    [][ /\ RangeFails =>
            /\ Len(objs'.warnings) = Len(objs.warnings) + 1
            /\ ~objs'.disp_trace[CurFile]
        /\ ( /\ EventStep("line")
             /\ self.cur_entry.file_data # NULL
             /\ ~objs.disp_trace[CurFile] ) =>
            /\ self'.data = self.data
            /\ objs'.warnings = objs.warnings
        /\ ( /\ EventStep("line")
             /\ self.data_stack.depth >= 0
             /\ self.cur_entry.file_data # NULL
             /\ self.cur_entry.file_tracer = Py_None
             /\ ~self.tracing_arcs ) =>
            ev'.e.f_lineno \in self'.data[self.cur_entry.file_data] ]_vars

\* C9: a failure of dynamic_source_filename in a call event or of
\* line_number_range in a line event disables the plugin, and the event
\* completes with RET_OK.
C9_TracerFaultIsPluginFault ==
    [][ /\ RangeFails =>
            /\ ev'.ret = RET_OK
            /\ ~objs'.coverage_enabled[CurPlugin]
        /\ DynamicNameFails =>
            /\ ev'.ret = RET_OK
            /\ ~objs'.coverage_enabled[
                    PluginOf(should_trace(FileOf(ev'.e.frame)).file_tracer)] ]_vars
----------------------------------------------------------------------------
(* The registry of data stacks                                             *)

\* The step registers the identity co
Registers(co) ==
    /\ co \notin DOMAIN self.data_stack_index
    /\ co \in DOMAIN self'.data_stack_index

\* C24: the registry of data stacks is injective and stable: an identity
\* resolved for the first time gets the next unused index and a stack that
\* is empty but for the push of the event itself, an identity keeps its
\* index, two identities never share one, the number of stacks in use is
\* the number of identities registered, and every registered index has its
\* initialised stack.
C24_RegistryInjectiveStable ==
    [][ LET index == self'.data_stack_index IN
        /\ \A co \in DOMAIN self.data_stack_index :
                co \in DOMAIN index /\ index[co] = self.data_stack_index[co]
        /\ \A co \in DOMAIN index :
                Registers(co) =>
                    /\ index[co] = self.data_stacks_used
                    /\ index[co] \in DOMAIN self'.data_stacks
                    /\ self'.data_stacks[index[co]].depth <= 0
                    /\ (ev'.e.what # "call") =>
                            self'.data_stacks[index[co]] = DataStack_init
        /\ \A c1, c2 \in DOMAIN index : index[c1] = index[c2] => c1 = c2
        /\ self'.data_stacks_used = Cardinality(DOMAIN index)
        /\ \A co \in DOMAIN index : index[co] \in DOMAIN self'.data_stacks
      ]_vars

----------------------------------------------------------------------------
(* Untraced frames                                                         *)

\* The innermost open frame's call left a current entry without file_data
InUntraced == nest.open # <<>> /\ self.cur_entry.file_data = NULL

\* C25: while the current entry is untraced, from the call that produced
\* it to its matching return, a line event of that frame records nothing
\* and leaves the current entry, last_line included, as it is, and the
\* return event records nothing.
C25_UntracedRecordsNothing ==
    [][ InUntraced =>
            /\ EventStep("line") =>
                    self'.data = self.data /\ self'.cur_entry = self.cur_entry
            /\ EventStep("return") => self'.data = self.data ]_vars

\* In arc mode, a line event and then the return of the untraced frame 3,
\* called from a traced frame that has recorded an arc
C25_Witness ==
    /\ self.tracing_arcs
    /\ ev.e.what = "return" /\ ev.e.frame = 3
    /\ nest.phase = "returned"
    /\ Len(nest.open) = 1
    /\ self.cur_entry.file_data # NULL
    /\ self.data[self.cur_entry.file_data] # {}
    /\ ev.n = MaxNest

----------------------------------------------------------------------------
(* The plugin of each file                                                 *)

\* C26: plugin_data gets an entry for a name only in the call event that
\* creates the name's entry of data, and only when the entry has a file
\* tracer, whose plugin it names; so every key of plugin_data is a key of
\* data, and no step changes or removes an entry of plugin_data.
C26_PluginDataOnce ==
    [][ /\ \A k \in DOMAIN self'.plugin_data \ DOMAIN self.plugin_data :
                /\ EventStep("call")
                /\ k \notin DOMAIN self.data
                /\ k \in DOMAIN self'.data
                /\ self'.cur_entry.file_data = k
                /\ self'.cur_entry.file_tracer # Py_None
                /\ self'.plugin_data[k] = PluginOf(self'.cur_entry.file_tracer)
        /\ \A k \in DOMAIN self.plugin_data :
                /\ k \in DOMAIN self'.plugin_data
                /\ self'.plugin_data[k] = self.plugin_data[k]
        /\ DOMAIN self'.plugin_data \subseteq DOMAIN self'.data ]_vars

\* A second call into a file whose plugin is recorded, beside a file
\* traced without a plugin
C26_Witness ==
    /\ ev.e.what = "call" /\ ev.n = MaxEvents
    /\ self.cur_entry.file_data \in DOMAIN self.plugin_data
    /\ self.data_stack.depth >= 1
    /\ self.data_stack.stack[self.data_stack.depth].file_data
            = self.cur_entry.file_data
    /\ DOMAIN self.data # DOMAIN self.plugin_data

----------------------------------------------------------------------------
(* Calls after a plugin was disabled                                       *)

\* The file of the frame the step's event is about
EventFile == FrameTable[ev'.e.frame].co_filename

\* C27: once disable_plugin has set a disposition's trace attribute to
\* False, a call event for that disposition's file leaves an untraced
\* current entry and asks neither should_trace nor the file tracer nor
\* check_include, whatever they would answer: nothing but the stack and
\* the current entry changes.  A call for a file with a static name and
\* another disposition (cached or about to be) is then traced with that
\* disposition's file tracer, as it was before.
C27_DisabledStaysUntraced ==
    [][ EventStep("call") =>
            /\ DisabledFile(EventFile) =>
                    /\ ev'.ret = RET_OK
                    /\ self'.cur_entry.file_data = NULL
                    /\ self'.cur_entry.file_tracer = Py_None
                    /\ objs' = objs
                    /\ self'.data = self.data
                    /\ self'.plugin_data = self.plugin_data
                    /\ self'.should_trace_cache = self.should_trace_cache
            /\ ( /\ \E g \in Files : DisabledFile(g)
                 /\ ~DisabledFile(EventFile)
                 /\ EventFile \in DOMAIN self.should_trace_cache =>
                        self.should_trace_cache[EventFile] = DispObj(EventFile)
                 /\ should_trace(EventFile).trace
                 /\ ~should_trace(EventFile).has_dynamic_filename ) =>
                    /\ ev'.ret = RET_OK
                    /\ self'.cur_entry.file_data = EventFile
                    /\ self'.cur_entry.file_tracer
                            = should_trace(EventFile).file_tracer ]_vars

\* A call into Q, disabled by an earlier call from a frame of A, during
\* which dynamic_source_filename would raise again if it were asked
C27_Witness ==
    /\ ev.n = MaxEvents
    /\ ev.e.what = "call" /\ ev.e.frame = 5 /\ ev.e.dyn = "raise"
    /\ ~objs.disp_trace["Q"]
    /\ Len(objs.warnings) = 1
    /\ self.cur_entry.file_data = NULL
    /\ self.data_stack.depth = 2
    /\ self.data_stack.stack[2].file_data = "A"

----------------------------------------------------------------------------
(* Bounds of the data stacks                                               *)

\* Every initialised DataStack of the tracer: the default one and the
\* registered ones
AllStacks(slf) ==
    {slf.data_stack} \cup {slf.data_stacks[i] : i \in DOMAIN slf.data_stacks}

DepthInBounds(ds) == -1 <= ds.depth /\ ds.depth < ds.alloc

\* The step takes an entry off the stack that was before in state ds and
\* is ds2 now: the entry read is the written one at index depth, with
\* 0 <= depth < alloc.
PopReads(ds, ds2) ==
    (ds2.depth < ds.depth) =>
        /\ 0 <= ds.depth /\ ds.depth < ds.alloc
        /\ ds.depth \in DOMAIN ds.stack
        /\ ds2.depth = ds.depth - 1
        /\ self'.cur_entry = ds.stack[ds.depth]

----------------------------------------------------------------------------
(* The interning cache                                                     *)

IsPowerOfTwo(n) == \E k \in 0..(MaxInterns + 2) : n = 2 ^ k

\* The slots of the table that hold a key
UsedSlots(t) == {i \in DOMAIN t.entries : t.entries[i].key # 0}

\* C29: after any sequence of intern calls the table's capacity is a power
\* of two and the size of entries, current_fill is the number of keys
\* stored and is below capacity, no entry holds the zero key's record,
\* which sits in zero_value only and which current_fill does not count,
\* and the call whose insertion takes current_fill beyond max_fill, and
\* no other, doubles the capacity.
C29_InternTableShape ==
    [][ EventStep("intern") =>
          LET t == self.intern_table
              t2 == self'.intern_table
              key == KeyOf(nest'.input)
          IN  /\ IsPowerOfTwo(t2.capacity)
              /\ DOMAIN t2.entries = 0..(t2.capacity - 1)
              /\ t2.current_fill = Cardinality(UsedSlots(t2))
              /\ t2.current_fill < t2.capacity
              /\ t2.max_fill = MaxFillOf(t2.capacity)
              /\ \A i \in DOMAIN t2.entries :
                      /\ t2.entries[i].key = 0 => t2.entries[i].value = NoRecord
                      /\ t2.entries[i].key # 0 =>
                              KeyOf(t2.entries[i].value.content) # 0
              /\ (key = 0) =>
                      /\ t2.zero_value = nest'.output
                      /\ t2.entries = t.entries
                      /\ t2.current_fill = t.current_fill
              /\ (key # 0) => t2.zero_value = t.zero_value
              /\ IF key # 0 /\ nest'.output.id = nest.allocs
                     /\ t.current_fill + 1 > t.max_fill
                  THEN t2.capacity = 2 * t.capacity
                  ELSE t2.capacity = t.capacity ]_vars

\* The table has doubled twice and holds the zero key's record beside
\* three entries
C29_Witness ==
    /\ "intern_table" \in DOMAIN self
    /\ self.intern_table.capacity = 4 * InitialCapacity
    /\ self.intern_table.current_fill = 3
    /\ self.intern_table.zero_value # NoRecord

\* Two inputs are packed into the same key
SameKey(in1, in2) == KeyOf(in1) = KeyOf(in2)

\* The step's input, the record it returned, and the inputs seen before
InternIn == nest'.input
InternOut == nest'.output
Earlier == DOMAIN nest.made

----------------------------------------------------------------------------
(* The frame entered when dynamic_source_filename raises                   *)

\* C31: when dynamic_source_filename raises in a call event the frame
\* entered is untraced: the event leaves a current entry without
\* file_data, and the line or return event that follows it adds nothing
\* to the data of any file.
C31_FailedDynamicUntraced ==
    [][ /\ DynamicNameFails => self'.cur_entry.file_data = NULL
        /\ ( /\ ev.e.what = "call" /\ ev.e.dyn = "raise"
             /\ EventStep("line") \/ EventStep("return") ) =>
                self'.data = self.data ]_vars

----------------------------------------------------------------------------
(* The registry when the array of data stacks cannot grow                  *)

\* The step is an event whose registration of a new identity fails for
\* lack of memory
RegistrationFails ==
    /\ ev'.n = ev.n + 1
    /\ ev'.e.stacks_fail
    /\ ev'.ret = RET_ERROR

\* C32: in every state, after a failed registration too, every index in
\* data_stack_index is below data_stacks_alloc and is that of a stack that
\* was initialised (depth >= -1, alloc >= 0); an event whose registration
\* fails leaves data_stack_index and data_stacks_used as they were.
C32_RegistryAfterNoMemory ==
    [][ /\ \A co \in DOMAIN self'.data_stack_index :
                LET i == self'.data_stack_index[co] IN
                /\ i < self'.data_stacks_alloc
                /\ i \in DOMAIN self'.data_stacks
                /\ self'.data_stacks[i].depth >= -1
                /\ self'.data_stacks[i].alloc >= 0
        /\ RegistrationFails =>
                /\ self'.data_stack_index = self.data_stack_index
                /\ self'.data_stacks_used = self.data_stacks_used ]_vars

----------------------------------------------------------------------------
(* The recorded data                                                       *)

\* The key a line event records for line l in the current entry's file
LineKey(l) == IF self.tracing_arcs THEN <<self.cur_entry.last_line, l>> ELSE l

\* C33: the recorded data only grows: no event of any kind, no recovery,
\* no plugin disablement and no start() or stop() removes a name from
\* data or a line or arc from a file's collection, and a line event that
\* records a line or arc already present leaves data as it is.
C33_DataOnlyGrows ==
    [][ /\ \A f \in DOMAIN self.data :
                /\ f \in DOMAIN self'.data
                /\ self.data[f] \subseteq self'.data[f]
        /\ ( /\ EventStep("line") /\ ~Recovers
             /\ self.data_stack.depth >= 0
             /\ self.cur_entry.file_data # NULL
             /\ self.cur_entry.file_tracer = Py_None
             /\ LineKey(ev'.e.f_lineno) \in self.data[self.cur_entry.file_data] ) =>
                self'.data = self.data ]_vars

\* A plugin was disabled by a line event of a frame that had recorded
\* before, and what it recorded is still there
C33_Witness ==
    /\ ev.n = MaxEvents
    /\ ev.e.what = "line" /\ ev.e.lnr.kind = "malformed"
    /\ Len(objs.warnings) = 1
    /\ "P" \in DOMAIN self.data
    /\ self.data["P"] # {}

----------------------------------------------------------------------------
(* The two users of should_trace_cache                                     *)

\* What check_include has answered for the dynamic name of the step's
\* event, or answers when it is asked now
IncludeAnswer ==
    IF /\ ev'.e.dyn \in DOMAIN self.should_trace_cache
       /\ self.should_trace_cache[ev'.e.dyn].kind = "bool"
    THEN self.should_trace_cache[ev'.e.dyn] = Py_True
    ELSE ev'.e.ci = "True"

\* C34: a frame whose file tracer names the dynamic file D is traced, with
\* D's data, iff check_include answers True for D, whatever native files
\* should_trace was asked about before; and a call for a native traced
\* file gets that file's disposition from should_trace, whatever dynamic
\* names were seen before, also when D is the name of a native file.
C34_DecisionsIndependent ==
    [][ EventStep("call") =>
            /\ ( /\ should_trace(EventFile).has_dynamic_filename
                 /\ objs.disp_trace[EventFile]
                 /\ ev'.e.dyn \in DynNames
                 /\ ev'.e.ci # "raise" ) =>
                    /\ ev'.ret = RET_OK
                    /\ (self'.cur_entry.file_data = ev'.e.dyn) <=> IncludeAnswer
                    /\ ~IncludeAnswer => self'.cur_entry.file_data = NULL
            /\ ( /\ ~should_trace(EventFile).has_dynamic_filename
                 /\ ev'.e.st = "ok" ) =>
                    /\ ev'.ret = RET_OK
                    /\ self'.cur_entry.disposition = DispObj(EventFile) ]_vars

====
